---- MODULE Spec2Model ----
(***************************************************************************)
(* Model of the resume screener (src/app.py): a Streamlit script that is   *)
(* re-run from top to bottom on every widget interaction.  The state is    *)
(* the widget values, st.session_state.results, the position of the        *)
(* Evaluate loop and what the last script run rendered.                    *)
(***************************************************************************)
EXTENDS Integers, Sequences, FiniteSets, TLC

VARIABLES
    job_description,   \* value of the job description text area
    uploaded_files,    \* value of the file uploader: sequence of file names
    button,            \* value st.button returned in the last script run
    pc,                \* "idle" | "running" (inside the for loop of the handler)
    idx,               \* 1-based position of the for loop in uploaded_files
    new_results,       \* the handler's local list new_results
    results,           \* st.session_state.results
    messages,          \* per-file feedback of the running / last Evaluate run
    sidebar,           \* "none" | "validation" | "spinner" | "done"
    target_location,   \* value of the location filter text input
    min_score,         \* value of the minimum score number input
    sorted_results,    \* sorted_results of the last rendering
    export_data,       \* export_data of the last rendering
    view_message       \* which message / list the main area shows

vars == <<job_description, uploaded_files, button, pc, idx, new_results,
          results, messages, sidebar, target_location, min_score,
          sorted_results, export_data, view_message>>

-----------------------------------------------------------------------------
(* Bounds and input sets *)

MaxFiles == 2

DefaultMinScore == 70

\* File names are sequences of characters, so that the extension is computed.
NameTxt == <<"a", ".", "T", "X", "T">>
NameCsv == <<"t", "x", "t", ".", "c", "s", "v">>

FileNames == {NameTxt, NameCsv}

JobDescriptions == {"", "Seeking a Python developer"}

\* Locations are sequences of characters, so that the match is computed.
LocHyd == <<"H", "y", "d">>
LocAus == <<"A", "u", "s">>

TargetLocations == {<<>>, <<"h", "Y">>}

MinScores == {0, DefaultMinScore}

BoundedSeq(S, n) == UNION {[1..k -> S] : k \in 0..n}

Range(s) == {s[i] : i \in DOMAIN s}

-----------------------------------------------------------------------------
(* Python values *)

\* The None returned by get_file_text on an exception; texts are strings.
NoneText == "<None>"

\* The None returned by get_jd_match_from_gemini; analyses are dicts.
NoneAnalysis == [None |-> TRUE]

\* dict.get(key, default)
Get(d, key, default) == IF key \in DOMAIN d THEN d[key] ELSE default

\* Mutant: `if resume_text is not None:`
TextIsNotNone(text) == text # NoneText

\* Truth value of `if resume_text:`
TruthyText(text) == text # NoneText /\ text # ""

\* Truth value of `if analysis:`
TruthyAnalysis(analysis) == analysis # NoneAnalysis /\ DOMAIN analysis # {}

\* str.lower() on one character of the alphabet in use
Lower(c) ==
    CASE c = "A" -> "a"
      [] c = "H" -> "h"
      [] c = "T" -> "t"
      [] c = "X" -> "x"
      [] c = "Y" -> "y"
      [] OTHER -> c

LowerSeq(s) == [i \in 1..Len(s) |-> Lower(s[i])]

\* a in b for strings: a occurs in b as a contiguous block
IsPrefixAt(a, b, off) ==
    /\ off + Len(a) <= Len(b)
    /\ \A j \in 1..Len(a) : a[j] = b[off + j]

StrIn(a, b) == \E off \in 0..Len(b) : IsPrefixAt(a, b, off)

-----------------------------------------------------------------------------
(* get_file_text *)

\* uploaded_file.name.split('.')[-1].lower()
LastDot(name) ==
    LET dots == {i \in 1..Len(name) : name[i] = "."}
    IN  IF dots = {} THEN 0 ELSE CHOOSE i \in dots : \A j \in dots : j <= i

\* Mutant: split('.')[0] in place of split('.')[-1]
FirstDot(name) ==
    LET dots == {i \in 1..Len(name) : name[i] = "."}
    IN  IF dots = {} THEN Len(name) + 1
        ELSE CHOOSE i \in dots : \A j \in dots : i <= j

FileExtensionFirstPart(name) == LowerSeq(SubSeq(name, 1, FirstDot(name) - 1))

FileExtension(name) == LowerSeq(SubSeq(name, LastDot(name) + 1, Len(name)))

SupportedExtensions ==
    { <<"p", "d", "f">>, <<"d", "o", "c", "x">>, <<"t", "x", "t">>,
      <<"p", "n", "g">>, <<"j", "p", "g">>, <<"j", "p", "e", "g">> }

\* What the parser / decoder / OCR call of the matching branch does with the
\* file's bytes: it raises, or it yields a text, which may be empty.
Raises == "<raises>"
ParseOutcomes == {Raises, "", "resume text"}

get_file_text(name, parsed) ==
    IF FileExtension(name) \in SupportedExtensions
    THEN IF parsed = Raises THEN NoneText ELSE parsed
    ELSE ""

-----------------------------------------------------------------------------
(* get_jd_match_from_gemini *)

RequiredFields ==
    {"name", "email", "phone", "score", "justification", "location",
     "matching_keywords"}

AnalysisAnn ==
    [name |-> "Ann", email |-> "ann@x", phone |-> "1", score |-> 90,
     justification |-> "strong", location |-> LocHyd,
     matching_keywords |-> <<"python", "sql", "aws">>]

AnalysisBob ==
    [name |-> "Bob", email |-> "bob@x", phone |-> "2", score |-> 90,
     justification |-> "strong", location |-> LocAus,
     matching_keywords |-> <<"python", "sql", "aws">>]

AnalysisCid ==
    [name |-> "Cid", email |-> "cid@x", phone |-> "3", score |-> 60,
     justification |-> "partial", location |-> LocHyd,
     matching_keywords |-> <<"python", "sql", "aws">>]

\* A JSON object without name, email, phone, score and location.
AnalysisPartial == [justification |-> "unclear"]

EmptyObject == <<>>

\* What the service call and the response text can be: the call raises, the
\* text is not JSON, or the text is a JSON object.
ServiceResponses ==
    { [kind |-> "error"], [kind |-> "malformed"] } \cup
    { [kind |-> "json", value |-> v] :
        v \in {EmptyObject, AnalysisPartial, AnalysisAnn, AnalysisBob,
               AnalysisCid} }

NoResponse == [kind |-> "not called"]

get_jd_match_from_gemini(response) ==
    IF response.kind = "json" THEN response.value ELSE NoneAnalysis

-----------------------------------------------------------------------------
(* Filtering, sorting and export of the main area *)

Score(result) == Get(result.analysis, "score", 0)

FilterByLocation(rs, loc) ==
    IF loc # <<>>
    THEN SelectSeq(rs, LAMBDA r :
             StrIn(LowerSeq(loc), LowerSeq(Get(r.analysis, "location", <<>>))))
    ELSE rs

\* Mutant: `> min_score` in place of `>= min_score`
FilterByScoreStrict(rs, ms) == SelectSeq(rs, LAMBDA r : Score(r) > ms)

FilterByScore(rs, ms) == SelectSeq(rs, LAMBDA r : Score(r) >= ms)

\* Mutant: an equal score is placed before the entries already there
RECURSIVE InsertBeforeTies(_, _)
InsertBeforeTies(s, r) ==
    IF s = <<>> THEN <<r>>
    ELSE IF Score(s[1]) > Score(r)
         THEN <<s[1]>> \o InsertBeforeTies(Tail(s), r)
         ELSE <<r>> \o s

\* sorted(..., key=score, reverse=True): a stable sort, by insertion
RECURSIVE InsertByScore(_, _)
InsertByScore(s, r) ==
    IF s = <<>> THEN <<r>>
    ELSE IF Score(s[1]) >= Score(r)
         THEN <<s[1]>> \o InsertByScore(Tail(s), r)
         ELSE <<r>> \o s

RECURSIVE SortByScoreDesc(_)
SortByScoreDesc(s) ==
    IF s = <<>> THEN <<>>
    ELSE InsertByScore(SortByScoreDesc(SubSeq(s, 1, Len(s) - 1)), s[Len(s)])

SortedResults(rs, loc, ms) ==
    IF rs # <<>>
    THEN SortByScoreDesc(FilterByScore(FilterByLocation(rs, loc), ms))
    ELSE <<>>

\* Mutant: the "Not Found" default of the card in place of "N/A"
ExportRowNotFound(result) ==
    [Name     |-> Get(result.analysis, "name", "Not Found"),
     Email    |-> Get(result.analysis, "email", "Not Found"),
     Phone    |-> Get(result.analysis, "phone", "Not Found"),
     Score    |-> Get(result.analysis, "score", 0),
     Location |-> Get(result.analysis, "location", "Not Found"),
     Filename |-> result.filename]

ExportRow(result) ==
    [Name     |-> Get(result.analysis, "name", "N/A"),
     Email    |-> Get(result.analysis, "email", "N/A"),
     Phone    |-> Get(result.analysis, "phone", "N/A"),
     Score    |-> Get(result.analysis, "score", 0),
     Location |-> Get(result.analysis, "location", "N/A"),
     Filename |-> result.filename]

ExportData(sorted) == [i \in 1..Len(sorted) |-> ExportRow(sorted[i])]

\* Mutant: one empty state, decided by the filtered list
ViewMessageBySorted(rs, sorted) ==
    IF sorted # <<>> THEN "candidates" ELSE "no results yet"

ViewMessage(rs, sorted) ==
    IF rs # <<>>
    THEN IF sorted # <<>> THEN "candidates" ELSE "no matches"
    ELSE "no results yet"

\* The filter widgets exist only while results is non-empty; a widget that
\* a script run does not create starts again from its default.
WidgetLocation(rs, loc) == IF rs # <<>> THEN loc ELSE <<>>
WidgetMinScore(rs, ms) == IF rs # <<>> THEN ms ELSE DefaultMinScore

\* Lines 166-259: the main area as rendered by one script run.
Render(rs, loc, ms) ==
    /\ target_location' = WidgetLocation(rs, loc)
    /\ min_score' = WidgetMinScore(rs, ms)
    /\ sorted_results' = SortedResults(rs, loc, ms)
    /\ export_data' = ExportData(SortedResults(rs, loc, ms))
    /\ view_message' = ViewMessage(rs, SortedResults(rs, loc, ms))

-----------------------------------------------------------------------------
(* The script runs *)

Init ==
    /\ job_description = ""
    /\ uploaded_files = <<>>
    /\ button = FALSE
    /\ pc = "idle"
    /\ idx = 0
    /\ new_results = <<>>
    /\ results = <<>>
    /\ messages = <<>>
    /\ sidebar = "none"
    /\ target_location = <<>>
    /\ min_score = DefaultMinScore
    /\ sorted_results = <<>>
    /\ export_data = <<>>
    /\ view_message = "no results yet"

\* Mutant: the script run stores the filtered list back into the session
RerunStoringFiltered(loc, ms) ==
    /\ button' = FALSE
    /\ sidebar' = "none"
    /\ messages' = <<>>
    /\ results' = SortedResults(results, loc, ms)
    /\ Render(SortedResults(results, loc, ms), loc, ms)
    /\ UNCHANGED <<pc, idx, new_results>>

\* A script run in which the Evaluate button was not clicked.
Rerun(loc, ms) ==
    /\ button' = FALSE
    /\ sidebar' = "none"
    /\ messages' = <<>>
    /\ Render(results, loc, ms)
    /\ UNCHANGED <<pc, idx, new_results, results>>

SetJobDescription(jd) ==
    /\ pc = "idle"
    /\ job_description' = jd
    /\ UNCHANGED uploaded_files
    /\ Rerun(target_location, min_score)

UploadFiles(files) ==
    /\ pc = "idle"
    /\ uploaded_files' = files
    /\ UNCHANGED job_description
    /\ Rerun(target_location, min_score)

SetTargetLocation(loc) ==
    /\ pc = "idle"
    /\ results # <<>>
    /\ UNCHANGED <<job_description, uploaded_files>>
    /\ Rerun(loc, min_score)

SetMinScore(ms) ==
    /\ pc = "idle"
    /\ results # <<>>
    /\ UNCHANGED <<job_description, uploaded_files>>
    /\ Rerun(target_location, ms)

DownloadExcel ==
    /\ pc = "idle"
    /\ sorted_results # <<>>
    /\ UNCHANGED <<job_description, uploaded_files>>
    /\ Rerun(target_location, min_score)

\* Mutant: `if job_description:`
ValidatedJobDescriptionOnly == job_description # ""

\* `if job_description and uploaded_files:`
Validated == job_description # "" /\ uploaded_files # <<>>

ClickEvaluate ==
    /\ pc = "idle"
    /\ button' = TRUE
    /\ messages' = <<>>
    /\ UNCHANGED <<job_description, uploaded_files, results>>
    /\ IF Validated
       THEN /\ pc' = "running"
            /\ idx' = 1
            /\ new_results' = <<>>
            /\ sidebar' = "spinner"
            /\ UNCHANGED <<target_location, min_score, sorted_results,
                           export_data, view_message>>
       ELSE /\ sidebar' = "validation"
            /\ Render(results, target_location, min_score)
            /\ UNCHANGED <<pc, idx, new_results>>

\* One iteration of `for file in uploaded_files:`
ProcessFile(parsed, response) ==
    /\ pc = "running"
    /\ idx <= Len(uploaded_files)
    /\ LET file == uploaded_files[idx]
           resume_text == get_file_text(file, parsed)
           analysis == get_jd_match_from_gemini(response)
       IN  IF TruthyText(resume_text)
           THEN IF TruthyAnalysis(analysis)
                THEN /\ new_results' = Append(new_results,
                            [filename |-> file, analysis |-> analysis])
                     /\ messages' = Append(messages,
                            [filename |-> file, text |-> resume_text,
                             response |-> response, status |-> "success"])
                ELSE /\ new_results' = new_results
                     /\ messages' = Append(messages,
                            [filename |-> file, text |-> resume_text,
                             response |-> response, status |-> "no analysis"])
           ELSE /\ new_results' = new_results
                /\ messages' = Append(messages,
                       [filename |-> file, text |-> resume_text,
                        response |-> NoResponse, status |-> "no text"])
    /\ idx' = idx + 1
    /\ UNCHANGED <<job_description, uploaded_files, button, pc, results,
                   sidebar, target_location, min_score, sorted_results,
                   export_data, view_message>>

\* `st.session_state.results = new_results`, then the main area is rendered.
FinishRun ==
    /\ pc = "running"
    /\ idx > Len(uploaded_files)
    /\ results' = new_results
    /\ pc' = "idle"
    /\ idx' = 0
    /\ new_results' = <<>>
    /\ sidebar' = "done"
    /\ Render(new_results, target_location, min_score)
    /\ UNCHANGED <<job_description, uploaded_files, button, messages>>

Next ==
    \/ \E jd \in JobDescriptions : SetJobDescription(jd)
    \/ \E files \in BoundedSeq(FileNames, MaxFiles) : UploadFiles(files)
    \/ \E loc \in TargetLocations : SetTargetLocation(loc)
    \/ \E ms \in MinScores : SetMinScore(ms)
    \/ DownloadExcel
    \/ ClickEvaluate
    \/ \E parsed \in ParseOutcomes, response \in ServiceResponses :
           ProcessFile(parsed, response)
    \/ FinishRun

Spec == Init /\ [][Next]_vars

TypeOK ==
    /\ job_description \in JobDescriptions
    /\ uploaded_files \in BoundedSeq(FileNames, MaxFiles)
    /\ button \in BOOLEAN
    /\ pc \in {"idle", "running"}
    /\ idx \in 0..(MaxFiles + 1)
    /\ sidebar \in {"none", "validation", "spinner", "done"}
    /\ target_location \in TargetLocations
    /\ min_score \in MinScores
    /\ view_message \in {"candidates", "no matches", "no results yet"}
    /\ Len(results) <= MaxFiles
    /\ Len(new_results) <= MaxFiles
    /\ Len(messages) <= MaxFiles

-----------------------------------------------------------------------------
(* Vocabulary of the properties, stated apart from the operators above *)

\* The part of the name after its last '.' is e, case-insensitively (the whole
\* name when it has no '.', as split('.') yields it).
HasExtension(name, e) ==
    LET n == Len(name)
        k == Len(e)
    IN  \/ /\ n > k
           /\ name[n - k] = "."
           /\ \A j \in 1..k : Lower(name[n - k + j]) = e[j]
        \/ /\ n = k
           /\ \A j \in 1..k : name[j] # "." /\ Lower(name[j]) = e[j]

Unsupported(name) == \A e \in SupportedExtensions : ~HasExtension(name, e)

\* The Text Extractor completed without an error for the file of message m.
ExtractionCompleted(m) == ~Unsupported(m.filename) /\ m.text # NoneText

\* The Candidate Scorer was invoked for the file of message m.
ScorerCalled(m) == m.response # NoResponse

\* The response is a JSON object with all seven required fields.
CompleteResponse(response) ==
    /\ response.kind = "json"
    /\ RequiredFields \subseteq DOMAIN response.value

\* One message per file handled so far, in upload order.
OneMessagePerFile ==
    /\ Len(messages) <= Len(uploaded_files)
    /\ \A i \in DOMAIN messages : messages[i].filename = uploaded_files[i]

\* a is a case-insensitive substring of b
SubstringCI(a, b) ==
    \E off \in 0..(Len(b) - Len(a)) :
        \A j \in 1..Len(a) : Lower(a[j]) = Lower(b[off + j])

LocationOf(r) ==
    IF "location" \in DOMAIN r.analysis THEN r.analysis.location ELSE <<>>

ScoreOf(r) == IF "score" \in DOMAIN r.analysis THEN r.analysis.score ELSE 0

\* The filter criteria keep result r.
Keep(r) ==
    /\ target_location = <<>> \/ SubstringCI(target_location, LocationOf(r))
    /\ ScoreOf(r) >= min_score

ResultOf(m) == [filename |-> m.filename, analysis |-> m.response.value]

ToResults(msgs) == [i \in 1..Len(msgs) |-> ResultOf(msgs[i])]

-----------------------------------------------------------------------------
(* C1 *)

\* C1: after an Evaluate run that passed validation, the ResultSet is exactly
\* the files of this run for which text extraction and scoring both succeeded
\* (scoring succeeds when the response is a JSON object with every required
\* field), in upload order; nothing of earlier runs is kept.
C1_ResultSetIsSucceededFilesOfRun ==
    sidebar = "done" =>
        /\ Len(messages) = Len(uploaded_files)
        /\ OneMessagePerFile
        /\ results = ToResults(SelectSeq(messages,
               LAMBDA m : ExtractionCompleted(m) /\ CompleteResponse(m.response)))

\* What the handler does establish: the ResultSet is exactly the files of this
\* run that the handler reported as successfully evaluated, in upload order.
ResultSetIsReportedSuccessesOfRun ==
    sidebar = "done" =>
        /\ Len(messages) = Len(uploaded_files)
        /\ OneMessagePerFile
        /\ results = ToResults(SelectSeq(messages,
               LAMBDA m : m.status = "success"))
        /\ \A i \in DOMAIN messages :
               messages[i].status = "success" <=>
                   /\ ExtractionCompleted(messages[i])
                   /\ messages[i].text # ""
                   /\ messages[i].response.kind = "json"
                   /\ messages[i].response.value # EmptyObject

-----------------------------------------------------------------------------
(* C2 *)

InvalidInputs == job_description = "" \/ uploaded_files = <<>>

\* C2: a click on Evaluate with an empty job description or with no files is
\* answered by the validation message and changes nothing: the ResultSet keeps
\* its value, the loop is not entered and no file is extracted or scored.
C2_RejectedRunChangesNothing ==
    [][(button' /\ InvalidInputs) =>
          /\ sidebar' = "validation"
          /\ results' = results
          /\ pc' = "idle"
          /\ messages' = <<>>
          /\ new_results' = new_results]_vars

C2_Witness ==
    /\ sidebar = "validation"
    /\ button
    /\ job_description = ""
    /\ uploaded_files # <<>>
    /\ results # <<>>

-----------------------------------------------------------------------------
(* C3 *)

\* C3: scoring is all-or-nothing: a service error, a malformed response or a
\* JSON object lacking a required field is a scoring failure for the file, and
\* every entry of the ResultSet carries all seven required fields.
C3_NoPartialAnalysis ==
    /\ \A i \in DOMAIN messages :
           (ScorerCalled(messages[i]) /\ ~CompleteResponse(messages[i].response))
               => messages[i].status = "no analysis"
    /\ \A i \in DOMAIN results :
           RequiredFields \subseteq DOMAIN results[i].analysis

-----------------------------------------------------------------------------
(* C4 *)

\* C4: a file whose extension is not pdf, docx, txt, png, jpg or jpeg is never
\* passed to the Candidate Scorer and is never in the ResultSet (nor in the
\* list a run is collecting), whatever else is in the batch.
C4_UnsupportedNeverScored ==
    /\ \A i \in DOMAIN messages :
           Unsupported(messages[i].filename) =>
               ~ScorerCalled(messages[i]) /\ messages[i].status = "no text"
    /\ \A i \in DOMAIN results : ~Unsupported(results[i].filename)
    /\ \A i \in DOMAIN new_results : ~Unsupported(new_results[i].filename)

C4_Witness ==
    /\ sidebar = "done"
    /\ \E i, j \in DOMAIN messages :
           /\ Unsupported(messages[i].filename)
           /\ i < j
           /\ messages[j].status = "success"
    /\ Len(results) = 1

-----------------------------------------------------------------------------
(* C5 *)

\* C5 as stated: for each file of a run the Candidate Scorer is run if and only
\* if the extraction completed without an error, an empty text included.
C5_ScorerRunsIffExtractionCompleted ==
    \A i \in DOMAIN messages :
        ScorerCalled(messages[i]) <=> ExtractionCompleted(messages[i])

\* C5 amended: for each file of a run the Candidate Scorer is run if and only
\* if the extraction completed without an error and yielded a non-empty text;
\* an empty text is handled as a failed extraction.  The Scorer is attempted
\* at most once per file.
C5_ScorerRunsIffTextObtained ==
    /\ \A i \in DOMAIN messages :
           ScorerCalled(messages[i]) <=>
               (ExtractionCompleted(messages[i]) /\ messages[i].text # "")
    /\ OneMessagePerFile

C5_Witness ==
    \E i, j \in DOMAIN messages :
        /\ ExtractionCompleted(messages[i])
        /\ messages[i].text = ""
        /\ messages[i].status = "no text"
        /\ ScorerCalled(messages[j])

-----------------------------------------------------------------------------
(* C6 *)

\* C6: a result is displayed if and only if the location filter is empty or a
\* case-insensitive substring of its location, and its score is >= the
\* minimum score; nothing else is displayed and nothing is displayed twice.
C6_DisplayedIffKept ==
    /\ \A i \in DOMAIN results :
           results[i] \in Range(sorted_results) <=> Keep(results[i])
    /\ Range(sorted_results) \subseteq Range(results)
    /\ Len(sorted_results) =
           Cardinality({i \in DOMAIN results : Keep(results[i])})

C6_Witness ==
    /\ target_location # <<>>
    /\ sorted_results # <<>>
    /\ \E i \in DOMAIN results :
           /\ SubstringCI(target_location, LocationOf(results[i]))
           /\ ScoreOf(results[i]) < min_score
           /\ results[i] \notin Range(sorted_results)

-----------------------------------------------------------------------------
(* C7 *)

\* C7: the displayed results are in descending order of score, and results of
\* equal score are displayed in the order they have in the ResultSet.
C7_SortedDescendingStable ==
    /\ \A i, j \in DOMAIN sorted_results :
           i < j => ScoreOf(sorted_results[i]) >= ScoreOf(sorted_results[j])
    /\ \A sc \in {ScoreOf(results[i]) : i \in DOMAIN results} :
           SelectSeq(sorted_results, LAMBDA r : ScoreOf(r) = sc) =
               SelectSeq(results, LAMBDA r :
                   ScoreOf(r) = sc /\ r \in Range(sorted_results))

C7_Witness ==
    /\ Len(sorted_results) = 2
    /\ sorted_results[1] # sorted_results[2]
    /\ ScoreOf(sorted_results[1]) = ScoreOf(sorted_results[2])

-----------------------------------------------------------------------------
(* C8 *)

FieldOr(r, key, default) ==
    IF key \in DOMAIN r.analysis THEN r.analysis[key] ELSE default

\* C8: the export has one row per displayed result, in display order; a row's
\* Name, Email, Phone, Score and Location are the fields of the analysis, "N/A"
\* standing for a missing string field and 0 for a missing score, and its
\* Filename is the result's filename.
C8_ExportMatchesDisplay ==
    /\ Len(export_data) = Len(sorted_results)
    /\ \A i \in DOMAIN sorted_results :
           /\ export_data[i].Name = FieldOr(sorted_results[i], "name", "N/A")
           /\ export_data[i].Email = FieldOr(sorted_results[i], "email", "N/A")
           /\ export_data[i].Phone = FieldOr(sorted_results[i], "phone", "N/A")
           /\ export_data[i].Score = FieldOr(sorted_results[i], "score", 0)
           /\ IF "location" \in DOMAIN sorted_results[i].analysis
              THEN export_data[i].Location = sorted_results[i].analysis.location
              ELSE export_data[i].Location = "N/A"
           /\ export_data[i].Filename = sorted_results[i].filename

C8_Witness ==
    /\ Len(export_data) = 2
    /\ export_data[1].Name # "N/A"
    /\ export_data[2].Name = "N/A"
    /\ export_data[2].Score = 0
    /\ export_data[2].Location = "N/A"

-----------------------------------------------------------------------------
(* C9 *)

\* C9: with an empty ResultSet the view shows "no results yet", also after a
\* validated run in which every file failed; with a non-empty ResultSet of
\* which the filter keeps nothing it shows "no matches".
C9_EmptyStatesDistinct ==
    /\ results = <<>> => view_message = "no results yet"
    /\ (results # <<>> /\ \A i \in DOMAIN results : ~Keep(results[i]))
           => view_message = "no matches"
    /\ view_message = "no results yet" => results = <<>>
    /\ view_message = "no matches" => results # <<>>

C9_Witness ==
    /\ sidebar = "done"
    /\ messages # <<>>
    /\ results = <<>>
    /\ view_message = "no results yet"

-----------------------------------------------------------------------------
(* C10 *)

\* C10: the ResultSet changes only in the step that completes a validated run,
\* where it becomes the list collected aside; while the files are processed,
\* and on every filter change, rendering and export, it stays as it is.
C10_ResultSetChangesOnlyAtRunEnd ==
    [][/\ (results' # results) =>
              /\ pc = "running"
              /\ pc' = "idle"
              /\ idx > Len(uploaded_files)
              /\ results' = new_results
       /\ (pc = "idle" \/ pc' = "running") => results' = results]_vars

C10_Witness ==
    /\ pc = "running"
    /\ results # <<>>
    /\ new_results # <<>>
    /\ new_results # results
    /\ target_location # <<>>

====
